---- MODULE Spec2Model ----
(***************************************************************************)
(* Pull File (detroit-labs/pull-file-vscode): the command that overwrites  *)
(* the file of the active editor with a file the user selects.             *)
(*                                                                         *)
(* Two revisions of extension.ts are modelled:                             *)
(*   "callback"  src/src/extension.ts   - the selection handlers receive   *)
(*               the promise's resolve function and call it;               *)
(*   "return"    src/unnamed/part_000   - the selection handlers return a  *)
(*               value and SelectFile resolves with that return value.     *)
(*                                                                         *)
(* Strings that the code takes apart (file names, paths, the sentinel) are *)
(* sequences of one-character strings.  JavaScript's undefined is the      *)
(* empty sequence: every test the code makes on such a value is a          *)
(* truthiness test, which undefined and "" both fail.                      *)
(***************************************************************************)
EXTENDS Integers, Sequences, FiniteSets, TLC

(***************************************************************************)
(* Bounds.                                                                 *)
(***************************************************************************)
MaxInvocations == 2
MaxListing == 3

(***************************************************************************)
(* node:path, as called by the extension (POSIX flavour).                  *)
(***************************************************************************)
Undefined == <<>>

Truthy(s) == s # <<>>

IndexOf(s, c) ==
    LET I == {k \in 1..Len(s) : s[k] = c}
    IN  IF I = {} THEN 0 ELSE CHOOSE k \in I : \A m \in I : k <= m

Max(S) == CHOOSE k \in S : \A m \in S : m <= k

\* path.basename: trailing separators are skipped, then the part after the
\* last separator before them is taken.
basename(p) ==
    LET names == {k \in 1..Len(p) : p[k] # "/"}
    IN  IF names = {} THEN <<>>
        ELSE LET end == Max(names)
                 seps == {k \in 1..end : p[k] = "/"}
                 start == IF seps = {} THEN 1 ELSE Max(seps) + 1
             IN  SubSeq(p, start, end)

\* path.dirname: the scan runs from the end down to index 1 (0-based), skips
\* trailing separators and stops at the first separator after a name.
dirname(p) ==
    IF Len(p) = 0 THEN <<".">>
    ELSE LET hasRoot == p[1] = "/"
             names == {i \in 1..(Len(p) - 1) : p[i + 1] # "/"}
             seps == IF names = {} THEN {}
                     ELSE {i \in 1..(Max(names) - 1) : p[i + 1] = "/"}
             end == IF seps = {} THEN -1 ELSE Max(seps)
         IN  IF end = -1 THEN (IF hasRoot THEN <<"/">> ELSE <<".">>)
             ELSE IF hasRoot /\ end = 1 THEN <<"/", "/">>
             ELSE SubSeq(p, 1, end)

\* The backwards scan of path.extname; indices are 0-based as in node.
RECURSIVE ExtScan(_, _, _)
ExtScan(p, i, st) ==
    IF i < 0 THEN st
    ELSE LET c == p[i + 1] IN
         IF c = "/"
         THEN IF ~st.matchedSlash
              THEN [st EXCEPT !.startPart = i + 1]
              ELSE ExtScan(p, i - 1, st)
         ELSE LET s1 == IF st.end = -1
                        THEN [st EXCEPT !.matchedSlash = FALSE, !.end = i + 1]
                        ELSE st
                  s2 == IF c = "."
                        THEN IF s1.startDot = -1
                             THEN [s1 EXCEPT !.startDot = i]
                             ELSE IF s1.preDotState # 1
                                  THEN [s1 EXCEPT !.preDotState = 1]
                                  ELSE s1
                        ELSE IF s1.startDot # -1
                             THEN [s1 EXCEPT !.preDotState = -1]
                             ELSE s1
              IN  ExtScan(p, i - 1, s2)

extname(p) ==
    LET st == ExtScan(p, Len(p) - 1,
                      [startDot |-> -1, startPart |-> 0, end |-> -1,
                       matchedSlash |-> TRUE, preDotState |-> 0])
    IN  IF \/ st.startDot = -1
           \/ st.end = -1
           \/ st.preDotState = 0
           \/ /\ st.preDotState = 1
              /\ st.startDot = st.end - 1
              /\ st.startDot = st.startPart + 1
        THEN <<>>
        ELSE SubSeq(p, st.startDot + 1, st.end)

RECURSIVE Split(_)
Split(p) ==
    LET k == IndexOf(p, "/")
    IN  IF k = 0 THEN <<p>>
        ELSE <<SubSeq(p, 1, k - 1)>> \o Split(SubSeq(p, k + 1, Len(p)))

RECURSIVE NormSegs(_, _, _)
NormSegs(segs, acc, abs) ==
    IF segs = <<>> THEN acc
    ELSE LET s == Head(segs)
             rest == Tail(segs)
         IN  IF s = <<>> \/ s = <<".">> THEN NormSegs(rest, acc, abs)
             ELSE IF s = <<".", ".">>
                  THEN IF acc # <<>> /\ acc[Len(acc)] # <<".", ".">>
                       THEN NormSegs(rest, SubSeq(acc, 1, Len(acc) - 1), abs)
                       ELSE IF abs THEN NormSegs(rest, acc, abs)
                            ELSE NormSegs(rest, Append(acc, s), abs)
                  ELSE NormSegs(rest, Append(acc, s), abs)

RECURSIVE JoinSegs(_)
JoinSegs(segs) ==
    IF segs = <<>> THEN <<>>
    ELSE IF Len(segs) = 1 THEN Head(segs)
    ELSE Head(segs) \o <<"/">> \o JoinSegs(Tail(segs))

normalize(p) ==
    IF p = <<>> THEN <<".">>
    ELSE LET abs == p[1] = "/"
             trailing == p[Len(p)] = "/"
             body == JoinSegs(NormSegs(Split(p), <<>>, abs))
         IN  IF body = <<>>
             THEN IF abs THEN <<"/">>
                  ELSE IF trailing THEN <<".", "/">> ELSE <<".">>
             ELSE LET b == IF trailing THEN body \o <<"/">> ELSE body
                  IN  IF abs THEN <<"/">> \o b ELSE b

join(a, b) ==
    LET joined == IF a = <<>> THEN b
                  ELSE IF b = <<>> THEN a
                  ELSE a \o <<"/">> \o b
    IN  IF joined = <<>> THEN <<".">> ELSE normalize(joined)

(***************************************************************************)
(* The files and documents of the model.                                   *)
(***************************************************************************)
FileA == <<"/", "w", "/", "a", ".", "t">>
FileB == <<"/", "w", "/", "b", ".", "t">>
FileC == <<"/", "w", "/", "c", ".", "m">>
FileSub == <<"/", "w", "/", "s", "u", "b", ".", "t">>
FileK == <<"k">>
Untitled == <<"U", "n", "t", "i", "t", "l", "e", "d", "-", "1">>

\* Every path of the model.  readdirSync lists the entries of a directory in
\* byte order of their names, which is the order they have here.
AllPaths == <<FileA, FileB, FileC, FileSub, Untitled, FileK>>

Paths == {AllPaths[k] : k \in 1..Len(AllPaths)}

\* The open text documents, named by TextDocument.fileName.
Docs == {FileA, Untitled}

\* A document that has never been saved has a bare name and no file.
IsUntitled(d) == d = Untitled

NoFile == "ENOENT"

\* What the file system holds at the path of a directory.
IsDir == "EISDIR"

InitialContent(p) ==
    IF p = FileA THEN "a0"
    ELSE IF p = FileB THEN "b0"
    ELSE IF p = FileC THEN "c0"
    ELSE IF p = FileK THEN "k0"
    ELSE IF p = FileSub THEN IsDir
    ELSE NoFile

\* The text of a document with unsaved edits.
EditedText(d) == IF d = FileA THEN "a1" ELSE "u1"

\* The text of a document without unsaved edits.
SavedText(d) == IF IsUntitled(d) THEN "" ELSE InitialContent(d)

\* Files another process may delete between their selection and the copy.
Removable == {FileC}

\* What the native open dialog can return (fileUri[0].fsPath).
DialogChoices == {FileB, FileC}

Revisions == {"callback", "return"}

UseOpenDialogText ==
    <<"U", "s", "e", " ", "O", "p", "e", "n", " ",
      "D", "i", "a", "l", "o", "g", ".", ".", ".">>

Range(s) == {s[k] : k \in 1..Len(s)}

\* Every label a quick pick of the model can show.
QuickPickItems == {UseOpenDialogText} \cup {basename(p) : p \in Paths}

VARIABLES
    revision,       \* which revision of extension.ts runs
    useQuickPick,   \* setting pullfile.useQuickPick
    includeOpenDialogOptionInQuickPick,
    disk,           \* path -> content of the file, or NoFile
    buffer,         \* document -> text shown by the editor
    dirty,          \* document -> TextDocument.isDirty
    inv,            \* invocation -> the PullFile object and where it stands
    probe           \* inputs and result of one list construction

vars == <<revision, useQuickPick, includeOpenDialogOptionInQuickPick,
          disk, buffer, dirty, inv, probe>>

Invocations == 1..MaxInvocations

\* The state of a document that the claims speak about.
DocState(d) == [text |-> buffer[d], file |-> disk[d], dirty |-> dirty[d]]

(***************************************************************************)
(* fs.readdirSync: the names of the entries of a directory.                *)
(***************************************************************************)
RECURSIVE ReadDirFrom(_, _)
ReadDirFrom(dir, k) ==
    IF k > Len(AllPaths) THEN <<>>
    ELSE LET p == AllPaths[k] IN
         IF dirname(p) = dir /\ disk[p] # NoFile
         THEN <<basename(p)>> \o ReadDirFrom(dir, k + 1)
         ELSE ReadDirFrom(dir, k + 1)

readdirSync(dir) == ReadDirFrom(dir, 1)

(***************************************************************************)
(* PullFile.GetFilesToShowInQuickPick, on the listing readdirSync gave.    *)
(***************************************************************************)
RECURSIVE FilterFiles(_, _, _, _)
FilterFiles(filesInCurrentDirectory, fileName, extension, filesToShow) ==
    IF filesInCurrentDirectory = <<>> THEN filesToShow
    ELSE LET value == Head(filesInCurrentDirectory) IN
         FilterFiles(Tail(filesInCurrentDirectory), fileName, extension,
                     IF value # basename(fileName) /\ extname(value) = extension
                     THEN Append(filesToShow, value)
                     ELSE filesToShow)

GetFilesToShowInQuickPick(filesInCurrentDirectory, fileName, extension, include) ==
    FilterFiles(filesInCurrentDirectory, fileName, extension,
                IF include THEN <<UseOpenDialogText>> ELSE <<>>)

\* PullFile.SelectFile: which prompt is shown first.
SelectFile(quickPick) == IF quickPick THEN "quickpick" ELSE "dialog"

(***************************************************************************)
(* One invocation of the command: the PullFile object, the promise made by *)
(* SelectFile, and a record of what the invocation has done so far.        *)
(***************************************************************************)
Pending == [state |-> "pending", value |-> Undefined]

Resolved(v) == [state |-> "resolved", value |-> v]

NoSnapshot == [text |-> "", file |-> NoFile, dirty |-> FALSE]

IdleInvocation ==
    [pc |-> "idle",
     activeDocument |-> Undefined,
     extension |-> Undefined,
     currentDirectory |-> Undefined,
     promise |-> Pending,
     items |-> <<>>,            \* the list given to showQuickPick
     enumerated |-> FALSE,      \* readdirSync was called
     quickPickShown |-> FALSE,
     dialogShown |-> FALSE,
     picked |-> Undefined,      \* the answer to the quick pick
     viaSentinel |-> FALSE,     \* that answer was the sentinel
     joined |-> Undefined,      \* path.join(currentDirectory, selection)
     dialogResult |-> Undefined,
     fileToPull |-> Undefined,  \* the argument of CopyFile
     dirtyAtCopy |-> FALSE,     \* isDirty as CopyFile read it
     saveResult |-> "none",     \* what save() resolved to
     saves |-> 0,               \* calls of activeDocument.save()
     overwrites |-> 0,          \* completed calls of copyFileSync
     pulled |-> NoFile,         \* the content copyFileSync wrote
     snapshot |-> NoSnapshot,   \* the document when the command was run
     overlapped |-> FALSE]      \* another invocation was pending at that time

Terminal == {"done", "cancelled", "ended", "copyfailed", "savefailed"}

(***************************************************************************)
(* fs.copyFileSync(fileToPull, activeDocument.fileName), run by            *)
(* invocation i whose record is r.  It throws when the source is missing,  *)
(* the destination untouched; it throws when the source is a directory,    *)
(* after it has opened the destination, and the destination is removed.    *)
(***************************************************************************)
copyFileSync(i, r) ==
    IF disk[r.fileToPull] = NoFile
    THEN /\ disk' = disk
         /\ inv' = [inv EXCEPT ![i] = [r EXCEPT !.pc = "copyfailed"]]
    ELSE IF disk[r.fileToPull] = IsDir
    THEN /\ disk' = [disk EXCEPT ![r.activeDocument] = NoFile]
         /\ inv' = [inv EXCEPT ![i] = [r EXCEPT !.pc = "copyfailed"]]
    ELSE /\ disk' = [disk EXCEPT ![r.activeDocument] = disk[r.fileToPull]]
         /\ inv' = [inv EXCEPT ![i] = [r EXCEPT !.pc = "done",
                                                !.overwrites = @ + 1,
                                                !.pulled = disk[r.fileToPull]]]

\* A variant whose copy is not in an else branch: a dirty document is
\* overwritten at once and again when the save is done.
CopyFileNoElse(i, r, fileToPull) ==
    LET r1 == [r EXCEPT !.fileToPull = fileToPull,
                        !.dirtyAtCopy = dirty[r.activeDocument]]
    IN  IF dirty[r.activeDocument] /\ disk[fileToPull] \notin {NoFile, IsDir}
        THEN /\ inv' = [inv EXCEPT ![i] = [r1 EXCEPT !.pc = "saving",
                                                     !.saves = @ + 1,
                                                     !.overwrites = @ + 1,
                                                     !.pulled = disk[fileToPull]]]
             /\ disk' = [disk EXCEPT ![r.activeDocument] = disk[fileToPull]]
        ELSE copyFileSync(i, r1)

(***************************************************************************)
(* PullFile.CopyFile: a dirty document is saved first and the copy is left *)
(* to the callback of save(); a clean one is overwritten at once.          *)
(***************************************************************************)
CopyFile(i, r, fileToPull) ==
    LET r1 == [r EXCEPT !.fileToPull = fileToPull,
                        !.dirtyAtCopy = dirty[r.activeDocument]]
    IN  IF dirty[r.activeDocument]
        THEN /\ inv' = [inv EXCEPT ![i] = [r1 EXCEPT !.pc = "saving",
                                                     !.saves = @ + 1]]
             /\ disk' = disk
        ELSE copyFileSync(i, r1)

(***************************************************************************)
(* What a selection handler does with the path it found.  In the callback  *)
(* revision it calls resolve, which queues the callback of Pull: CopyFile  *)
(* runs in a later step, and callbacks queued before it run in between.    *)
(* In the return revision it returns the path to showQuickPick's or        *)
(* showOpenDialog's then, which nobody reads.                              *)
(***************************************************************************)
Deliver(i, r, path) ==
    IF revision = "callback"
    THEN inv' = [inv EXCEPT ![i] = [r EXCEPT !.pc = "selected",
                                            !.promise = Resolved(path)]]
    ELSE inv' = [inv EXCEPT ![i] = [r EXCEPT !.pc = "ended"]]

(***************************************************************************)
(* The command callback: new PullFile(editor, settings) and Pull(), up to  *)
(* the first prompt.  In the return revision SelectFileWithQuickPick and   *)
(* SelectFileWithOpenDialog return nothing, so the promise is resolved     *)
(* with undefined on the spot; the callback of Pull, queued by then(),     *)
(* runs before any other callback and finds no file.                       *)
(***************************************************************************)
PullFile(i, d) ==
    LET prompt == SelectFile(useQuickPick)
        dir == dirname(d)
        ext == extname(d)
    IN  [inv[i] EXCEPT
           !.pc = prompt,
           !.activeDocument = d,
           !.extension = ext,
           !.currentDirectory = dir,
           !.snapshot = DocState(d),
           !.overlapped = \E j \in Invocations :
                             inv[j].pc \notin Terminal \cup {"idle"},
           !.enumerated = (prompt = "quickpick"),
           !.quickPickShown = (prompt = "quickpick"),
           !.dialogShown = (prompt = "dialog"),
           !.items = IF prompt = "quickpick"
                     THEN GetFilesToShowInQuickPick(readdirSync(dir), d, ext,
                              includeOpenDialogOptionInQuickPick)
                     ELSE <<>>,
           !.promise = IF revision = "return"
                       THEN Resolved(Undefined) ELSE Pending]

\* A variant that saves a dirty document before it asks for the file.
PullSavingFirst(i, d) ==
    /\ inv[i].pc = "idle"
    /\ \A j \in Invocations : j < i => inv[j].pc # "idle"
    /\ inv' = [inv EXCEPT ![i] = PullFile(i, d)]
    /\ dirty' = [dirty EXCEPT ![d] = FALSE]
    /\ disk' = IF dirty[d] /\ ~IsUntitled(d)
               THEN [disk EXCEPT ![d] = buffer[d]] ELSE disk
    /\ UNCHANGED <<revision, useQuickPick, includeOpenDialogOptionInQuickPick,
                   buffer, probe>>

Pull(i, d) ==
    /\ inv[i].pc = "idle"
    /\ \A j \in Invocations : j < i => inv[j].pc # "idle"
    /\ inv' = [inv EXCEPT ![i] = PullFile(i, d)]
    /\ UNCHANGED <<revision, useQuickPick, includeOpenDialogOptionInQuickPick,
                   disk, buffer, dirty, probe>>

(***************************************************************************)
(* The callback of showQuickPick in SelectFileWithQuickPick.               *)
(***************************************************************************)
QuickPickThen(i, selection) ==
    /\ inv[i].pc = "quickpick"
    /\ selection \in Range(inv[i].items) \cup {Undefined}
    /\ LET r == [inv[i] EXCEPT !.picked = selection] IN
       IF Truthy(selection)
       THEN IF includeOpenDialogOptionInQuickPick /\ selection = UseOpenDialogText
            THEN inv' = [inv EXCEPT ![i] = [r EXCEPT !.pc = "dialog",
                                                     !.viaSentinel = TRUE,
                                                     !.dialogShown = TRUE]]
            ELSE LET selectedFile == join(r.currentDirectory, selection)
                 IN  Deliver(i, [r EXCEPT !.joined = selectedFile], selectedFile)
       ELSE inv' = [inv EXCEPT ![i] = [r EXCEPT !.pc = "cancelled"]]
    /\ UNCHANGED <<revision, useQuickPick, includeOpenDialogOptionInQuickPick,
                   disk, buffer, dirty, probe>>

(***************************************************************************)
(* The callback of showOpenDialog in SelectFileWithOpenDialog.             *)
(***************************************************************************)
OpenDialogThen(i, fsPath) ==
    /\ inv[i].pc = "dialog"
    /\ fsPath \in DialogChoices \cup {Undefined}
    /\ IF Truthy(fsPath)
       THEN Deliver(i, [inv[i] EXCEPT !.dialogResult = fsPath], fsPath)
       ELSE inv' = [inv EXCEPT ![i] = [@ EXCEPT !.pc = "cancelled"]]
    /\ UNCHANGED <<revision, useQuickPick, includeOpenDialogOptionInQuickPick,
                   disk, buffer, dirty, probe>>

(***************************************************************************)
(* The callback Pull attaches to the promise of SelectFile, run once the   *)
(* promise is resolved with a path.                                        *)
(***************************************************************************)
PullThen(i) ==
    /\ inv[i].pc = "selected"
    /\ LET fileToPull == inv[i].promise.value IN
       IF Truthy(fileToPull)
       THEN CopyFile(i, inv[i], fileToPull)
       ELSE /\ inv' = [inv EXCEPT ![i] = [@ EXCEPT !.pc = "ended"]]
            /\ disk' = disk
    /\ UNCHANGED <<revision, useQuickPick, includeOpenDialogOptionInQuickPick,
                   buffer, dirty, probe>>

(***************************************************************************)
(* The editor carries out a save the extension asked for.  save() resolves *)
(* to true when the document was written, to false when it was not, or is  *)
(* rejected.  An untitled document is written under a name the user gives  *)
(* in the editor's own dialog, outside the files of the model.             *)
(***************************************************************************)
SaveOutcomes == {"true", "false", "rejected"}

HostSave(i, outcome) ==
    /\ inv[i].pc = "saving"
    /\ outcome \in SaveOutcomes
    /\ LET d == inv[i].activeDocument IN
       IF outcome = "true"
       THEN /\ dirty' = [dirty EXCEPT ![d] = FALSE]
            /\ disk' = IF dirty[d] /\ ~IsUntitled(d)
                       THEN [disk EXCEPT ![d] = buffer[d]]
                       ELSE disk
       ELSE UNCHANGED <<dirty, disk>>
    /\ inv' = [inv EXCEPT ![i] = [@ EXCEPT
                 !.pc = IF outcome = "rejected" THEN "savefailed" ELSE "saved",
                 !.saveResult = outcome]]
    /\ UNCHANGED <<revision, useQuickPick, includeOpenDialogOptionInQuickPick,
                   buffer, probe>>

\* The callback of save() in CopyFile; it does not look at the result.
SaveThen(i) ==
    /\ inv[i].pc = "saved"
    /\ copyFileSync(i, inv[i])
    /\ UNCHANGED <<revision, useQuickPick, includeOpenDialogOptionInQuickPick,
                   buffer, dirty, probe>>

(***************************************************************************)
(* The editor reloads a document whose file changed on disk, unless the    *)
(* document has unsaved edits.                                             *)
(***************************************************************************)
HostReload(d) ==
    /\ ~IsUntitled(d)
    /\ ~dirty[d]
    /\ disk[d] # NoFile
    /\ buffer[d] # disk[d]
    /\ buffer' = [buffer EXCEPT ![d] = disk[d]]
    /\ UNCHANGED <<revision, useQuickPick, includeOpenDialogOptionInQuickPick,
                   disk, dirty, inv, probe>>

\* Another process deletes a file that an invocation has selected and not
\* yet copied.
RemoveFile(p) ==
    /\ p \in Removable
    /\ disk[p] # NoFile
    /\ \E i \in Invocations : /\ inv[i].pc \in {"selected", "saving", "saved"}
                               /\ inv[i].promise.value = p
    /\ disk' = [disk EXCEPT ![p] = NoFile]
    /\ UNCHANGED <<revision, useQuickPick, includeOpenDialogOptionInQuickPick,
                   buffer, dirty, inv, probe>>

(***************************************************************************)
(* The environment: the user answers prompts and does nothing else while   *)
(* an invocation is pending (the documents are clean or dirty from the     *)
(* start), the editor saves and reloads, another process may delete a      *)
(* file.  Invocations are numbered in the order they are run.              *)
(***************************************************************************)
NoProbe ==
    [listing |-> <<>>, dirs |-> {}, fileName |-> Undefined, include |-> FALSE,
     quickPick |-> FALSE, applied |-> FALSE, prompt |-> "none", shown |-> <<>>]

Init ==
    /\ revision \in Revisions
    /\ useQuickPick \in BOOLEAN
    /\ includeOpenDialogOptionInQuickPick \in BOOLEAN
    /\ disk = [p \in Paths |-> InitialContent(p)]
    /\ dirty \in [Docs -> BOOLEAN]
    /\ buffer = [d \in Docs |-> IF dirty[d] THEN EditedText(d) ELSE SavedText(d)]
    /\ inv = [i \in Invocations |-> IdleInvocation]
    /\ probe = NoProbe

Next ==
    \/ \E i \in Invocations, d \in Docs : Pull(i, d)
    \/ \E i \in Invocations, n \in QuickPickItems \cup {Undefined} : QuickPickThen(i, n)
    \/ \E i \in Invocations, f \in DialogChoices \cup {Undefined} : OpenDialogThen(i, f)
    \/ \E i \in Invocations : PullThen(i)
    \/ \E i \in Invocations, o \in SaveOutcomes : HostSave(i, o)
    \/ \E i \in Invocations : SaveThen(i)
    \/ \E d \in Docs : HostReload(d)
    \/ \E p \in Removable : RemoveFile(p)

Spec == Init /\ [][Next]_vars

(***************************************************************************)
(* The list construction on its own: any listing of up to MaxListing       *)
(* entries, any of them subdirectories (dirs), any of three active         *)
(* documents, either value of the settings.                                *)
(***************************************************************************)
NameA == <<"a", ".", "t">>
NameB == <<"b", ".", "t">>
NameC == <<"c", ".", "m">>
NameD == <<"d">>
NameDotT == <<".", "t">>

ListingNames == {NameA, NameB, NameC, NameD, NameDotT}

FileD == <<"/", "w", "/", "d">>

ListingDocs == {FileA, FileC, FileD}

Listings ==
    UNION {{l \in [1..n -> ListingNames] :
               \A j, k \in 1..n : j # k => l[j] # l[k]} : n \in 0..MaxListing}

InitFiles ==
    /\ revision = "callback"
    /\ useQuickPick = TRUE
    /\ includeOpenDialogOptionInQuickPick = TRUE
    /\ disk = [p \in Paths |-> InitialContent(p)]
    /\ dirty = [d \in Docs |-> FALSE]
    /\ buffer = [d \in Docs |-> SavedText(d)]
    /\ inv = [i \in Invocations |-> IdleInvocation]
    /\ probe \in {q \in [listing : Listings, dirs : SUBSET ListingNames,
                          fileName : ListingDocs, include : BOOLEAN,
                          quickPick : BOOLEAN, applied : {FALSE},
                          prompt : {"none"}, shown : {<<>>}] :
                      /\ q.dirs \subseteq Range(q.listing)
                      /\ basename(q.fileName) \notin q.dirs}

\* SelectFile and, for the quick pick, ShowQuickPick up to showQuickPick.
ShowPrompt ==
    /\ ~probe.applied
    /\ LET prompt == SelectFile(probe.quickPick) IN
       probe' = [probe EXCEPT
                   !.applied = TRUE,
                   !.prompt = prompt,
                   !.shown = IF prompt = "quickpick"
                             THEN GetFilesToShowInQuickPick(probe.listing,
                                      probe.fileName, extname(probe.fileName),
                                      probe.include)
                             ELSE <<>>]
    /\ UNCHANGED <<revision, useQuickPick, includeOpenDialogOptionInQuickPick,
                   disk, buffer, dirty, inv>>

NextFiles == ShowPrompt

SpecFiles == InitFiles /\ [][NextFiles]_vars

(***************************************************************************)
(* Vocabulary of the properties.                                           *)
(***************************************************************************)
Started(i) == inv[i].pc # "idle"

\* No other invocation was run on the document of invocation i.
Alone(i) ==
    \A j \in Invocations :
        j # i /\ Started(j) => inv[j].activeDocument # inv[i].activeDocument

\* The editor has not yet reloaded a file that changed under it.
ReloadPending(d) ==
    ~IsUntitled(d) /\ ~dirty[d] /\ disk[d] # NoFile /\ buffer[d] # disk[d]

\* The document's file name has no directory part.
NoFolder(d) == IndexOf(d, "/") = 0

Quiescent ==
    /\ \A i \in Invocations : inv[i].pc \in Terminal \cup {"idle"}
    /\ \A d \in Docs : ~ReloadPending(d)

Successful(i) == inv[i].pc = "done"

(***************************************************************************)
(* C1.  After a successful pull - the document clean or dirty when the     *)
(* command was run, the save having succeeded or not - the document's text *)
(* is the text of the selected file and the document is not dirty, once    *)
(* the editor has caught up with the disk.  Stated for documents that have *)
(* a file and for an invocation that had the document to itself.           *)
(***************************************************************************)
PullLeavesSourceTextAndClean ==
    \A i \in Invocations :
        /\ Successful(i)
        /\ ~IsUntitled(inv[i].activeDocument)
        /\ Alone(i)
        /\ ~ReloadPending(inv[i].activeDocument)
        => /\ buffer[inv[i].activeDocument] = inv[i].pulled
           /\ ~dirty[inv[i].activeDocument]

(***************************************************************************)
(* C2.  An invocation whose prompt was dismissed - the quick pick, the     *)
(* dialog opened directly or the dialog reached through the sentinel - has *)
(* asked for no save and made no overwrite, its promise holds no file, and *)
(* the document's text, file and dirty flag are what they were when the    *)
(* command was run (no other invocation having been run on the document).  *)
(***************************************************************************)
CancelLeavesDocumentUntouched ==
    \A i \in Invocations :
        inv[i].pc = "cancelled"
        => /\ inv[i].saves = 0
           /\ inv[i].overwrites = 0
           /\ ~Truthy(inv[i].promise.value)
           /\ ~Truthy(inv[i].fileToPull)
           /\ Alone(i) => DocState(inv[i].activeDocument) = inv[i].snapshot

\* A dirty document whose invocation went to the dialog through the sentinel
\* and was dismissed there.
CancelledAfterSentinel ==
    \E i \in Invocations :
        /\ inv[i].pc = "cancelled"
        /\ inv[i].viaSentinel
        /\ inv[i].snapshot.dirty
        /\ Alone(i)

(***************************************************************************)
(* C3.  When the copy of the selected file fails, the document's text,     *)
(* file and dirty flag are what they were when the command was run, for a  *)
(* clean and for a dirty document alike.                                   *)
(***************************************************************************)
FailedCopyLeavesDocumentUntouched ==
    \A i \in Invocations :
        inv[i].pc = "copyfailed" /\ Alone(i)
        => DocState(inv[i].activeDocument) = inv[i].snapshot

(***************************************************************************)
(* C4.  When the document was dirty at the time the file was selected, the *)
(* overwrite has happened only after save() completed, and only after a    *)
(* save that committed the edits (save() resolved to true).                *)
(***************************************************************************)
OverwriteOnlyAfterCommittedSave ==
    \A i \in Invocations :
        inv[i].overwrites > 0 /\ inv[i].dirtyAtCopy
        => inv[i].saves = 1 /\ inv[i].saveResult = "true"

(***************************************************************************)
(* C5.  While a prompt of the invocation is unanswered its promise is not  *)
(* resolved; once the user has picked a file name that is not the sentinel *)
(* the promise is resolved with the folder joined with that name, and that *)
(* path is the file the invocation copies.                                 *)
(***************************************************************************)
PickedNameIsResolvedAndPulled ==
    \A i \in Invocations :
        /\ inv[i].pc \in {"quickpick", "dialog"} => inv[i].promise = Pending
        /\ Truthy(inv[i].picked) /\ ~inv[i].viaSentinel
           => /\ inv[i].promise =
                    Resolved(join(inv[i].currentDirectory, inv[i].picked))
              /\ inv[i].pc # "selected"
                 => inv[i].fileToPull = inv[i].promise.value

(***************************************************************************)
(* C6.  An invocation on a document without a folder enumerates no         *)
(* directory, shows no prompt, asks for no save and makes no overwrite.    *)
(***************************************************************************)
NoFolderIsNoOp ==
    \A i \in Invocations :
        Started(i) /\ NoFolder(inv[i].activeDocument)
        => /\ ~inv[i].enumerated
           /\ ~inv[i].quickPickShown
           /\ ~inv[i].dialogShown
           /\ inv[i].saves = 0
           /\ inv[i].overwrites = 0

(***************************************************************************)
(* C7.  The list given to the quick pick is the sentinel, if and only if   *)
(* includeOpenDialogOptionInQuickPick is set, followed by the files of the *)
(* folder, in the order of the listing, that have the active document's    *)
(* extension and are not the active document; the quick pick is shown with *)
(* that list even when the list is empty.                                  *)
(***************************************************************************)
IsCandidate(n, fileName, dirs) ==
    n \notin dirs /\ n # basename(fileName) /\ extname(n) = extname(fileName)

RECURSIVE Candidates(_, _, _)
Candidates(listing, fileName, dirs) ==
    IF listing = <<>> THEN <<>>
    ELSE (IF IsCandidate(Head(listing), fileName, dirs)
          THEN <<Head(listing)>> ELSE <<>>)
         \o Candidates(Tail(listing), fileName, dirs)

QuickPickListIsSentinelThenCandidates ==
    probe.applied /\ probe.quickPick
    => /\ probe.prompt = "quickpick"
       /\ probe.shown =
             (IF probe.include THEN <<UseOpenDialogText>> ELSE <<>>)
             \o Candidates(probe.listing, probe.fileName, probe.dirs)
       /\ probe.include <=> UseOpenDialogText \in Range(probe.shown)
       /\ probe.include => probe.shown[1] = UseOpenDialogText
       /\ \A n \in ListingNames :
             n \in Range(probe.shown)
             <=> /\ n \in Range(probe.listing)
                 /\ n \notin probe.dirs
                 /\ n # basename(probe.fileName)
                 /\ extname(n) = extname(probe.fileName)

(***************************************************************************)
(* C8.  After the sentinel was picked the dialog has been shown, the       *)
(* folder was never joined with the sentinel text, and the selection of    *)
(* the invocation is what the dialog returned: that path, or nothing when  *)
(* the dialog was dismissed.                                               *)
(***************************************************************************)
SentinelRoutesToDialog ==
    \A i \in Invocations :
        inv[i].viaSentinel
        => /\ inv[i].dialogShown
           /\ inv[i].joined = Undefined
           /\ Truthy(inv[i].dialogResult)
              => inv[i].promise = Resolved(inv[i].dialogResult)
           /\ inv[i].pc = "cancelled" => ~Truthy(inv[i].promise.value)

(***************************************************************************)
(* C9, as claimed.  A successful invocation has made exactly one overwrite *)
(* and asked for exactly one save.                                         *)
(***************************************************************************)
OneOverwriteAndOneSave ==
    \A i \in Invocations :
        Successful(i) => inv[i].overwrites = 1 /\ inv[i].saves = 1

(***************************************************************************)
(* C9, amended.  No invocation makes more than one overwrite or asks for   *)
(* more than one save; a successful invocation has made exactly one        *)
(* overwrite, and has asked for exactly one save if the document was dirty *)
(* when the file was selected and for none if it was clean.                *)
(***************************************************************************)
OneOverwriteAndSaveIfDirty ==
    \A i \in Invocations :
        /\ inv[i].overwrites <= 1
        /\ inv[i].saves <= 1
        /\ Successful(i)
           => /\ inv[i].overwrites = 1
              /\ inv[i].saves = IF inv[i].dirtyAtCopy THEN 1 ELSE 0

\* Two successful invocations, one that found the document dirty and one
\* that found it clean.
SuccessfulDirtyAndClean ==
    \E i, j \in Invocations :
        /\ Successful(i) /\ inv[i].dirtyAtCopy /\ inv[i].saves = 1
        /\ Successful(j) /\ ~inv[j].dirtyAtCopy /\ inv[j].saves = 0

(***************************************************************************)
(* C10.  When an invocation was run while another was pending, then once   *)
(* all invocations are over and the editor has caught up, every document   *)
(* with a file that was overwritten shows the content one of its own       *)
(* invocations pulled.                                                     *)
(***************************************************************************)
OverlappingInvocationsLeavePulledContent ==
    Quiescent /\ (\E i \in Invocations : inv[i].overlapped)
    => \A d \in Docs :
          LET mine == {i \in Invocations :
                          Started(i) /\ inv[i].activeDocument = d
                          /\ inv[i].overwrites > 0}
          IN  ~IsUntitled(d) /\ mine # {}
              => buffer[d] \in {inv[i].pulled : i \in mine}

====
